---- MODULE Spec2Model ----
(***************************************************************************)
(* The launch workflows of yur1-dev/pumpbot: five scripts that read a      *)
(* parameter file, check the vanity mint address, pick an RPC endpoint,    *)
(* check the creator's balance, submit the creation transaction(s),        *)
(* optionally buy, and write a JSON result before the process exits.       *)
(*                                                                         *)
(*   raydium         create_raydium_token.js, main + createLockToken(params)*)
(*   raydium_config  create_raydium_token.js, second createLockToken()     *)
(*   launchlab       create_launchlab_token.js, createLockToken()          *)
(*   real_launchlab  create_real_launchlab_token.js, createTradableLockToken*)
(*   simple_lock     create_simple_lock_token.js, createSimpleLockToken    *)
(*                                                                         *)
(* create_raydium_token.js holds two scripts one after the other, and      *)
(* create_launchlab_token.js holds the script and, after it, the config    *)
(* module (loadRaydiumSdk, createConnection, LAUNCHLAB_CONFIG) that the     *)
(* second script of create_raydium_token.js requires; each is modelled as  *)
(* the module it is.                                                        *)
(*                                                                         *)
(* One process runs one script.  A step of the model is one operation of   *)
(* the script (one awaited call with the synchronous code that follows     *)
(* it); an exception thrown in a step runs the script's catch block(s) in  *)
(* the same step, as the JavaScript does.                                   *)
(*                                                                         *)
(* Amounts of SOL are counted in units of 0.005 SOL, the smallest amount   *)
(* any script compares against.                                            *)
(*                                                                         *)
(* Spec is one run of one script.  SpecSelector is one call of an endpoint *)
(* selector on its own (getConnection, getFastestConnection, and           *)
(* createConnection with a URL or with none, where its four probes run     *)
(* concurrently).  SpecValidator is one value given to each of the two     *)
(* address validators.                                                     *)
(***************************************************************************)
EXTENDS Integers, Sequences, FiniteSets, TLC

----------------------------------------------------------------------------
(* Bounds of the model *)

\* initialBuyAmount ranges over 0..MaxBuy units
MaxBuy == 2
\* getBalance answers 0..MaxBalance units
MaxBalance == 23
\* the clock of the concurrent probes runs 0..MaxLatency ticks
MaxLatency == 3
\* a total supply that is no multiple of 100 (and, negated, one below zero)
SmallSupply == 7
\* a validator or the curve derivation is called up to MaxCalls times
MaxCalls == 2

----------------------------------------------------------------------------
(* Program constants, in units of 0.005 SOL *)

\* create_raydium_token.js:202   0.1 SOL
MinRequiredRaydium == 20
\* create_raydium_token.js:479   0.005 SOL
MinRequiredRaydiumConfig == 1
\* create_launchlab_token.js:75  0.05 SOL
MinRequiredLaunchlab == 10
\* create_real_launchlab_token.js:103  0.01 SOL
MinRequiredReal == 2
\* create_simple_lock_token.js:65  0.01 SOL
MinRequiredSimple == 2
\* create_real_launchlab_token.js:188,189
MinAddrLen == 32
MaxAddrLen == 44
\* RPC_ENDPOINTS.length, create_raydium_token.js:35-39 and
\* create_real_launchlab_token.js:49-53
NumRpcEndpoints == 3
\* FAST_RPC_ENDPOINTS.length, create_launchlab_token.js:299-304
NumFastEndpoints == 4
\* params.totalSupply || 1_000_000_000, create_raydium_token.js:497 and
\* create_real_launchlab_token.js:122
DefaultTotalSupply == 1000000000

Variants == {"raydium", "raydium_config", "launchlab", "real_launchlab", "simple_lock"}

----------------------------------------------------------------------------
(* Strings: an address is a sequence of characters *)

Str4(a, b, c, d) == <<a, b, c, d>>
Str3(a, b, c) == <<a, b, c>>

\* String.prototype.toUpperCase, on the characters the model uses
UpperChar(ch) ==
  CASE ch = "l" -> "L"
    [] ch = "o" -> "O"
    [] ch = "c" -> "C"
    [] ch = "k" -> "K"
    [] ch = "x" -> "X"
    [] OTHER -> ch

\* String.prototype.toLowerCase, on the characters the model uses
LowerChar(ch) ==
  CASE ch = "L" -> "l"
    [] ch = "O" -> "o"
    [] ch = "C" -> "c"
    [] ch = "K" -> "k"
    [] ch = "X" -> "x"
    [] OTHER -> ch

toUpperCase(s) == [i \in 1..Len(s) |-> UpperChar(s[i])]
toLowerCase(s) == [i \in 1..Len(s) |-> LowerChar(s[i])]

\* String.prototype.endsWith
endsWith(s, suffix) ==
  /\ Len(s) >= Len(suffix)
  /\ SubSeq(s, Len(s) - Len(suffix) + 1, Len(s)) = suffix

\* a base58 body of n characters that spells no suffix
Pad(n) == [i \in 1..n |-> "1"]

\* the last characters of the mint addresses the parameter file may carry.
\* An address is base58, which has neither "l" nor "O": LOCK is spelt with L and o
Tails ==
  { Str4("L","o","c","k"), Str4("L","o","C","K"), Str4("L","o","c","K"),
    Str4("1","L","c","k"), Str4("1","L","C","K"), Str4("L","o","c","x") }

\* Keypair.publicKey.toString() is the base58 form of 32 bytes: 32..44 characters
MintAddresses ==
  { Pad(n - 4) \o t : n \in {MinAddrLen, MaxAddrLen}, t \in Tails }

----------------------------------------------------------------------------
(* The address checks *)

\* a JavaScript value as a validator sees it: its typeof, whether it is truthy,
\* and its characters (for an array, its elements)
JsString(chars) == [type |-> "string", truthy |-> Len(chars) > 0, chars |-> chars]
Undefined == [type |-> "undefined", truthy |-> FALSE, chars |-> <<>>]

\* the values that are not strings: undefined, null, 0, 42, {} and an array of
\* 32 one-character strings that spells an address ending in LOCK
NonStrings ==
  { Undefined,
    [type |-> "object", truthy |-> FALSE, chars |-> <<>>],
    [type |-> "number", truthy |-> FALSE, chars |-> <<>>],
    [type |-> "number", truthy |-> TRUE, chars |-> <<>>],
    [type |-> "object", truthy |-> TRUE, chars |-> <<>>],
    [type |-> "object", truthy |-> TRUE,
     chars |-> Pad(MinAddrLen - 4) \o Str4("L","O","C","K")] }

\* the check without toUpperCase(): the suffix compared as it is written
validateLockAddressCaseSensitive(address) ==
  IF ~address.truthy \/ address.type # "string"
     \/ Len(address.chars) < MinAddrLen \/ Len(address.chars) > MaxAddrLen
  THEN FALSE
  ELSE \/ endsWith(address.chars, Str4("L","O","C","K"))
       \/ endsWith(address.chars, Str3("L","C","K"))

\* create_real_launchlab_token.js validateLockAddressFixed
validateLockAddressFixed(address) ==
  IF ~address.truthy \/ address.type # "string"
     \/ Len(address.chars) < MinAddrLen \/ Len(address.chars) > MaxAddrLen
  THEN FALSE
  ELSE LET upper == toUpperCase(address.chars)
       IN  endsWith(upper, Str4("L","O","C","K")) \/ endsWith(upper, Str3("L","C","K"))

\* fixes_address_validation.js validateLockAddress: the same checks one return
\* at a time
validateLockAddress(address) ==
  IF ~address.truthy \/ address.type # "string" THEN FALSE
  ELSE IF Len(address.chars) < MinAddrLen \/ Len(address.chars) > MaxAddrLen THEN FALSE
  ELSE LET upperAddress == toUpperCase(address.chars)
       IN  IF endsWith(upperAddress, Str4("L","O","C","K")) THEN TRUE
           ELSE IF endsWith(upperAddress, Str3("L","C","K")) THEN TRUE
           ELSE FALSE

\* the functions the validator specification applies
Validators == {"validateLockAddressFixed", "validateLockAddress"}

\* the last characters of the values handed to a validator
ValTails ==
  Tails \cup
  { Str4("l","o","c","k"), Str4("L","O","C","K"), Str4("l","o","c","x"),
    Str3("l","c","k"), Str3("L","C","K"), Str3("l","C","k"), Str3("o","c","k"),
    Str4("L","O","C","1"), <<"L","O","C","K","1">> }

\* the strings handed to a validator: each tail behind bodies that put the
\* length below, at and above both limits, and the empty string
ValStrings ==
  { Pad(n) \o t :
      n \in {0, MinAddrLen - 5, MinAddrLen - 4, MinAddrLen - 3,
              MaxAddrLen - 4, MaxAddrLen - 3, MaxAddrLen - 2},
      t \in ValTails } \cup {<<>>}

ValInputs == { JsString(chars) : chars \in ValStrings } \cup NonStrings

\* create_raydium_token.js:193 and :375
endsWithLockLower(address) ==
  endsWith(toLowerCase(address), Str4("l","o","c","k"))

\* create_raydium_token.js:462-465
endsWithLockOrLckLower(address) ==
  \/ endsWith(toLowerCase(address), Str4("l","o","c","k"))
  \/ endsWith(toLowerCase(address), Str3("l","c","k"))

\* create_launchlab_token.js:57-59, create_simple_lock_token.js:50-52 (the
\* check only draws a warning, whatever it answers)
hasLockSuffix(address) ==
  \/ endsWith(toUpperCase(address), Str4("L","O","C","K"))
  \/ endsWith(toUpperCase(address), Str3("L","C","K"))

\* the check each script makes of the mint address at its entry
EntryCheck(v, address) ==
  CASE v = "raydium" -> endsWithLockLower(address)
    [] v = "raydium_config" -> endsWithLockOrLckLower(address)
    [] v = "real_launchlab" -> validateLockAddressFixed(JsString(address))
    [] OTHER -> hasLockSuffix(address)

\* whether a failed entry check throws (TRUE) or only warns (FALSE)
EntryCheckThrows(v) == v \in {"raydium", "real_launchlab"}

----------------------------------------------------------------------------
(* The balance checks *)

\* the balance each script requires, given the initial buy
Required(v, buy) ==
  CASE v = "raydium" -> IF buy > 0 THEN buy + MinRequiredRaydium ELSE MinRequiredRaydium
    [] v = "raydium_config" -> buy + MinRequiredRaydiumConfig
    [] v = "launchlab" -> MinRequiredLaunchlab
    [] v = "real_launchlab" -> MinRequiredReal + buy
    [] OTHER -> MinRequiredSimple

\* the comparison left out: every balance passes
BalancePassesAlways(v, b, buy) == TRUE

\* if (balanceSOL < minRequired) throw
BalancePasses(v, b, buy) == ~(b < Required(v, buy))

----------------------------------------------------------------------------
(* The order of the operations of each script *)

\* the scripts with the endpoint picked before the parameter file is read
OrderProbeFirst(v) ==
  CASE v = "raydium" ->
         <<"load", "connect", "params", "validate_main", "validate", "balance",
           "create_mint", "sdk", "build", "execute">>
    [] v = "raydium_config" ->
         <<"load", "connect", "params", "validate", "balance", "sdk", "build", "execute">>
    [] v = "launchlab" ->
         <<"load", "params", "validate", "balance", "sdk", "build", "execute">>
    [] v = "real_launchlab" ->
         <<"load", "connect", "params", "validate", "balance", "sdk", "build", "execute">>
    [] OTHER ->
         <<"load", "params", "validate", "balance", "create_mint", "create_account", "mint_to">>

Order(v) ==
  CASE v = "raydium" ->
         <<"load", "params", "validate_main", "connect", "validate", "balance",
           "create_mint", "sdk", "build", "execute">>
    [] v = "raydium_config" ->
         <<"load", "params", "connect", "validate", "balance", "sdk", "build", "execute">>
    [] v = "launchlab" ->
         <<"load", "params", "validate", "balance", "sdk", "build", "execute">>
    [] v = "real_launchlab" ->
         <<"load", "params", "validate", "connect", "balance", "sdk", "build", "execute">>
    [] OTHER ->
         <<"load", "params", "validate", "balance", "create_mint", "create_account", "mint_to">>

IndexOf(seq, x) == CHOOSE i \in 1..Len(seq) : seq[i] = x

\* the operation that follows operation p in script v
After(v, p) == Order(v)[IndexOf(Order(v), p) + 1]

\* the operations of create_raydium_token.js that run in main, outside createLockToken
MainSteps == {"params", "validate_main"}

----------------------------------------------------------------------------
VARIABLES
  variant,        \* the script this process runs
  pc,             \* the next operation; "exited" once the process has ended
  params,         \* the parsed parameter file
  probeIdx,       \* the candidate endpoint the sequential selector probes next
  connection,     \* the endpoint in use (0: none yet)
  balance,        \* the creator's balance as read (-1: not read)
  createArgs,     \* what the creation call was given
  extInfo,        \* the extInfo the creation call returned: "none", "absent", "present"
  poolId,         \* the pool id the script holds: "none", "pool", "Unknown", "N/A"
  createOutcome,  \* "none", "confirmed", "rejected", "timeout"
  poolOnChain,    \* whether the pool of this mint exists on chain
  buyError,       \* the error the buy's own catch block caught ("none")
  buySig,         \* the buy's signature, "null" when there is none
  calls,          \* the network calls made so far, in order
  emitted,        \* the JSON result objects written so far, in order
  exitCode,       \* -1 while running, then the exit status
  err,            \* the first exception thrown ("none")
  rpcUrl,         \* the argument of createConnection ("none" before a call)
  clock,          \* Date.now(), counted from the start of the concurrent probes
  probes,         \* the concurrent probes of createConnection, by candidate
  doneOrder,      \* the candidates in the order their probes settled
  valInput,       \* the value a validator is called with
  valResult,      \* what each validator returned, call after call
  curveOut        \* what the curve derivation returned, call after call

selvars == <<clock, probes, doneOrder>>
valvars == <<valInput, valResult, curveOut>>

vars == <<variant, pc, params, probeIdx, connection, balance, createArgs,
          extInfo, poolId, createOutcome, poolOnChain, buyError, buySig, calls, emitted, exitCode, err,
          rpcUrl, selvars, valvars>>

\* a number of the parameter file is <<n>>, and <<>> when the key is absent
NoParams ==
  [mintAddress |-> <<>>, initialBuyAmount |-> 0, rpc_url |-> "absent",
   totalSupply |-> <<>>, sellPercentage |-> <<>>, expectedLockSuffix |-> "absent"]
NoArgs == [mint |-> <<>>, amountB |-> 0, supply |-> 0, totalSellA |-> 0, made |-> FALSE]

\* an address every script accepts
LockAddress == Pad(MinAddrLen - 4) \o Str4("L","o","c","k")

\* the files that vary the mint address, the buy and the RPC URL
BaseFiles ==
  [mintAddress : MintAddresses, initialBuyAmount : 0..MaxBuy,
   rpc_url : {"absent", "custom"}, totalSupply : {<<DefaultTotalSupply>>},
   sellPercentage : {<<>>}, expectedLockSuffix : {"absent"}]

\* the files that vary the curve parameters: totalSupply absent, negative,
\* zero, small and 1,000,000,000; sellPercentage absent, 20 and 150
CurveFiles ==
  [mintAddress : {LockAddress}, initialBuyAmount : {0}, rpc_url : {"absent"},
   totalSupply : {<<>>, <<0 - SmallSupply>>, <<0>>, <<SmallSupply>>, <<DefaultTotalSupply>>},
   sellPercentage : {<<>>, <<20>>, <<150>>}, expectedLockSuffix : {"absent"}]

\* the files that carry expectedLockSuffix
SuffixFiles ==
  [mintAddress : {LockAddress, Pad(MinAddrLen - 4) \o Str4("L","o","c","x")},
   initialBuyAmount : {0}, rpc_url : {"absent"}, totalSupply : {<<DefaultTotalSupply>>},
   sellPercentage : {<<>>}, expectedLockSuffix : {"LOCK"}]

ParamsFiles == BaseFiles \cup CurveFiles \cup SuffixFiles

\* a concurrent probe: not started, pending, ok, failed or hung
IdleProbe == [state |-> "idle", start |-> 0, latency |-> 0]

NoResults == [f \in Validators |-> <<>>]

\* createConnection has not been called
SelectorIdle ==
  /\ rpcUrl = "none"
  /\ clock = 0
  /\ probes = [i \in 1..NumFastEndpoints |-> IdleProbe]
  /\ doneOrder = <<>>

\* no validator has been called
ValidatorIdle ==
  /\ valInput = Undefined
  /\ valResult = NoResults
  /\ curveOut = <<>>

\* a process that has made no call and written nothing
Unstarted ==
  /\ probeIdx = 1
  /\ connection = 0
  /\ balance = -1
  /\ createArgs = NoArgs
  /\ extInfo = "none"
  /\ poolId = "none"
  /\ createOutcome = "none"
  /\ poolOnChain = FALSE
  /\ buyError = "none"
  /\ buySig = "null"
  /\ calls = <<>>
  /\ emitted = <<>>
  /\ exitCode = -1
  /\ err = "none"

\* and has not read its parameter file
Fresh ==
  /\ params = NoParams
  /\ Unstarted

Init ==
  /\ variant \in Variants
  /\ pc = "load"
  /\ Fresh
  /\ SelectorIdle
  /\ ValidatorIdle

----------------------------------------------------------------------------
(* Results *)

\* the name of the workflow function of script v
WorkflowName(v) ==
  CASE v = "real_launchlab" -> "createTradableLockToken"
    [] v = "simple_lock" -> "createSimpleLockToken"
    [] OTHER -> "createLockToken"

\* String.prototype.includes
includes(text, sub) ==
  \E i \in 1..(Len(text) - Len(sub) + 1) : SubSeq(text, i, i + Len(sub) - 1) = sub

\* error.message of the exception of this kind thrown in operation p of script
\* v.  <address>, <creator>, <required>, <current> and <file> stand where the
\* script interpolates a base58 address, an amount or a path (none of which
\* can spell a phrase a catch block looks for); the messages of exceptions
\* thrown by Node, web3.js and the SDK are examples of what these throw
RawMessage(v, p, kind) ==
  CASE kind = "ParamsFileNotFound" -> "Parameters file not found: <file>"
    [] kind = "ParamsParseError" -> "Unexpected end of JSON input"
    [] kind = "KeypairDecodeError" -> "bad secret key size"
    [] kind = "ValidationError" ->
         IF v = "real_launchlab" THEN "Invalid LOCK address: <address>"
         ELSE IF p = "validate_main"
         THEN "FATAL: Provided keypair does not generate LOCK address. Got: <address>"
         ELSE "CRITICAL ERROR: Generated address <address> does not end with 'lock'"
    [] kind = "NoEndpointAvailable" ->
         IF v = "real_launchlab" THEN "No RPC available" ELSE "All RPC endpoints failed"
    [] kind = "NetworkError" -> "fetch failed"
    [] kind = "AccountNotFound" ->
         "Account <creator> not found. Please fund this wallet with at least <required> SOL"
    [] kind = "InsufficientFunds" ->
         CASE v = "raydium" ->
                "Insufficient balance. Required: <required> SOL, Current: <current> SOL"
           [] v = "raydium_config" ->
                "Insufficient balance. Need <required> SOL, have <current> SOL"
           [] v = "launchlab" ->
                "Insufficient balance: <current> SOL. Need at least <required> SOL"
           [] v = "real_launchlab" -> "Insufficient balance: need <required> SOL"
           [] OTHER -> "Insufficient balance: <current> SOL"
    [] kind = "SubmissionError" ->
         "Transaction simulation failed: Attempt to debit an account but found no record of a prior credit."
    [] kind = "ConfirmationTimeout" ->
         "Transaction was not confirmed in 30.00 seconds. It is unknown if it succeeded or failed."
    [] kind = "SdkLoadError" -> "Failed to load token list"
    [] kind = "BuildError" -> "launchpad config not found"
    [] kind = "TypeError" ->
         IF v = "launchlab"
         THEN "Cannot read properties of undefined (reading 'toString')"
         ELSE "Cannot read properties of undefined (reading 'poolId')"
    [] kind = "ReferenceError" -> "extInfo is not defined"
    [] OTHER -> "Error"

\* the userFriendlyMessage the catch block of script v's workflow derives from
\* error.message: the first phrase found decides, and the message stays as it
\* is when none is found (create_raydium_token.js:317-338 and :596-616,
\* create_launchlab_token.js:211-222); the other scripts report error.message
UserFriendlyMessage(v, text) ==
  CASE v = "raydium" ->
         IF includes(text, "Attempt to debit an account but found no record of a prior credit")
         THEN "Creator wallet needs more SOL. Please add at least 0.1 SOL to your wallet and try again."
         ELSE IF includes(text, "insufficient funds")
         THEN "Insufficient SOL balance. Please add more SOL to your wallet."
         ELSE IF includes(text, "Account not found")
         THEN "Wallet account not found. Please fund your wallet with at least 0.1 SOL."
         ELSE IF includes(text, "blockhash")
         THEN "Network congestion. Please try again in a moment."
         ELSE IF includes(text, "LOCK")
         THEN "Vanity address generation failed - address doesn't end with 'lock'."
         ELSE text
    [] v = "raydium_config" ->
         IF includes(text, "Attempt to debit an account")
         THEN "Wallet needs more SOL. Add at least 0.01 SOL and try again."
         ELSE IF includes(text, "insufficient funds")
         THEN "Insufficient SOL balance for LaunchLab creation."
         ELSE IF includes(text, "Account not found")
         THEN "Wallet not found on-chain. Fund with SOL first."
         ELSE IF includes(text, "SDK") \/ includes(text, "load")
         THEN "Raydium SDK initialization failed. Check dependencies."
         ELSE IF includes(text, "config not found")
         THEN "LaunchLab configuration missing. This may be a platform setup issue."
         ELSE text
    [] v = "launchlab" ->
         IF includes(text, "Attempt to debit an account")
         THEN "Wallet needs more SOL. Add at least 0.1 SOL and try again."
         ELSE IF includes(text, "insufficient")
         THEN "Insufficient SOL balance for LaunchLab creation."
         ELSE IF includes(text, "Account not found")
         THEN "Wallet account not found on-chain. Fund wallet with SOL first."
         ELSE text
    [] OTHER -> text

\* error.stack: the name and message of the error, then the frames
Stack(text) == "Error: " \o text \o " at <frames>"

\* the error object a catch block writes.  message and technical_error are
\* <<text>>, and <<>> when the object has no such key: main of
\* create_raydium_token.js writes status and message alone (:389-392)
ErrorResult(v, p, kind, by) ==
  [status |-> "error", error |-> kind, signature |-> "none", poolId |-> "none",
   initialBuySignature |-> "null", by |-> by,
   message |-> IF by = "main" THEN <<RawMessage(v, p, kind)>>
               ELSE <<UserFriendlyMessage(v, RawMessage(v, p, kind))>>,
   technical_error |->
     CASE by = "main" -> <<>>
       [] v \in {"real_launchlab", "simple_lock"} -> <<Stack(RawMessage(v, p, kind))>>
       [] OTHER -> <<RawMessage(v, p, kind)>>,
   initialBuyError |-> <<>>,
   verifiedLockSuffix |-> "absent"]

\* a JavaScript boolean as JSON writes it
JsBool(b) == IF b THEN "true" ELSE "false"

\* the verifiedLockSuffix each script writes in its response: the first
\* script of create_raydium_token.js looks for "lock" alone (:305), its second
\* for "lock" or "lck" (:571-573); create_launchlab_token.js (:57-60, :191)
\* writes hasLockSuffix, which is params.expectedLockSuffix when the address
\* has no suffix (the key is dropped when that is undefined);
\* create_real_launchlab_token.js writes no such key (:158-169)
VerifiedLockSuffix(v, p) ==
  CASE v = "raydium" -> JsBool(endsWithLockLower(p.mintAddress))
    [] v = "raydium_config" -> JsBool(endsWithLockOrLckLower(p.mintAddress))
    [] v = "launchlab" ->
         IF hasLockSuffix(p.mintAddress) THEN "true" ELSE p.expectedLockSuffix
    [] v = "real_launchlab" -> "absent"
    [] OTHER -> JsBool(hasLockSuffix(p.mintAddress))

\* the response a workflow writes; no script writes the buy's error in it
SuccessResult(v, p, pool, sig, by) ==
  [status |-> "success", error |-> "none", signature |-> "txId", poolId |-> pool,
   initialBuySignature |-> sig, by |-> by,
   message |-> <<>>, technical_error |-> <<>>,
   initialBuyError |-> <<>>,
   verifiedLockSuffix |-> VerifiedLockSuffix(v, p)]

\* what the catch blocks write for an exception thrown in operation p:
\* create_raydium_token.js writes one object in createLockToken's catch, rethrows,
\* and main's catch writes another; every other script writes one
ErrorReports(v, p, kind) ==
  IF v = "raydium"
  THEN IF p \in MainSteps
       THEN <<ErrorResult(v, p, kind, "main")>>
       ELSE <<ErrorResult(v, p, kind, WorkflowName(v)),
              ErrorResult(v, p, kind, "main")>>
  ELSE <<ErrorResult(v, p, kind, WorkflowName(v))>>

\* what the success path writes: create_raydium_token.js writes the response in
\* createLockToken and again in main
SuccessReports(v, p, pool, sig) ==
  IF v = "raydium"
  THEN <<SuccessResult(v, p, pool, sig, WorkflowName(v)),
         SuccessResult(v, p, pool, sig, "main")>>
  ELSE <<SuccessResult(v, p, pool, sig, WorkflowName(v))>>

\* the failed balance check handled as the warn-only address checks are: the
\* error is reported and the workflow goes on
FailKeepsGoing(kind) ==
  /\ err' = kind
  /\ emitted' = emitted \o ErrorReports(variant, pc, kind)
  /\ IF pc = "balance"
     THEN pc' = After(variant, pc) /\ UNCHANGED exitCode
     ELSE pc' = "exited" /\ exitCode' = 1

\* a catch block that writes its error result and returns: the promise
\* resolves and the process exits 0
FailExitsZero(kind) ==
  /\ err' = kind
  /\ emitted' = emitted \o ErrorReports(variant, pc, kind)
  /\ exitCode' = 0
  /\ pc' = "exited"

\* an exception of this kind is thrown: the catch block(s) run and the process exits 1
Fail(kind) ==
  /\ err' = kind
  /\ emitted' = emitted \o ErrorReports(variant, pc, kind)
  /\ exitCode' = 1
  /\ pc' = "exited"

\* the operation ends normally and the next one is due
Continue ==
  /\ pc' = After(variant, pc)
  /\ UNCHANGED <<err, emitted, exitCode>>

\* the workflow writes its response and the process exits 0 (process.exit(0) in
\* main or the .then handler; create_real_launchlab_token.js just returns)
Finish(pool, sig) ==
  /\ emitted' = emitted \o SuccessReports(variant, params, pool, sig)
  /\ exitCode' = 0
  /\ pc' = "exited"
  /\ UNCHANGED err

----------------------------------------------------------------------------
(* Operations *)

\* the module-level require() calls; in create_real_launchlab_token.js the SDK
\* import is wrapped in try/catch that logs and calls process.exit(1), in the
\* other scripts a failing require is an uncaught exception: exit status 1,
\* no result object either way
LoadModule ==
  /\ pc = "load"
  /\ \E ok \in BOOLEAN :
       IF ok
       THEN Continue
       ELSE /\ err' = "ModuleLoadError"
            /\ exitCode' = 1
            /\ pc' = "exited"
            /\ UNCHANGED emitted
  /\ UNCHANGED <<variant, params, probeIdx, connection, balance, createArgs,
                 extInfo, poolId, createOutcome, poolOnChain, buyError, buySig, calls>>
  /\ UNCHANGED <<rpcUrl, selvars, valvars>>

\* createConnection handed the file's rpc_url as it is, null when the file has none
RpcUrlArgNoDefault(p) == IF p.rpc_url # "absent" THEN p.rpc_url ELSE "null"

\* what the config-based workflow hands to createConnection
\* (create_raydium_token.js:442-444)
RpcUrlArg(p) == IF p.rpc_url # "absent" THEN p.rpc_url ELSE "mainnet-beta"

\* fs.existsSync / JSON.parse(fs.readFileSync(..)); the config-based workflow
\* takes the argument of createConnection from the file
ReadParams ==
  /\ pc = "params"
  /\ \/ /\ \E kind \in {"ParamsFileNotFound", "ParamsParseError"} : Fail(kind)
        /\ UNCHANGED params
        /\ UNCHANGED rpcUrl
     \/ /\ \E p \in ParamsFiles :
             /\ params' = p
             /\ rpcUrl' = IF variant = "raydium_config" THEN RpcUrlArg(p) ELSE rpcUrl
        /\ Continue
  /\ UNCHANGED <<variant, probeIdx, connection, balance, createArgs,
                 extInfo, poolId, createOutcome, poolOnChain, buyError, buySig, calls>>
  /\ UNCHANGED <<selvars, valvars>>

\* Keypair.fromSecretKey(Buffer.from(.., "base64")), which throws when the
\* file's key does not decode, and the entry check of the mint address
Validate ==
  /\ pc \in {"validate_main", "validate"}
  /\ \/ Fail("KeypairDecodeError")
     \/ IF ~EntryCheck(variant, params.mintAddress) /\ EntryCheckThrows(variant)
        THEN Fail("ValidationError")
        ELSE Continue
  /\ UNCHANGED <<variant, params, probeIdx, connection, balance, createArgs,
                 extInfo, poolId, createOutcome, poolOnChain, buyError, buySig, calls>>
  /\ UNCHANGED <<rpcUrl, selvars, valvars>>

\* the candidates the selector of script v probes: getConnection and
\* getFastestConnection walk RPC_ENDPOINTS in order; createConnection(rpcUrl) is
\* given one URL by the config-based workflow and checks that one
NumCandidatesFirstOnly(v) == 1

NumCandidates(v) == IF v = "raydium_config" THEN 1 ELSE NumRpcEndpoints

\* what the selector throws once no candidate is left
ConnectError(v) == IF v = "raydium_config" THEN "NetworkError" ELSE "NoEndpointAvailable"

\* createConnection never takes the branch of the URL it is given
UsesOverrideNever(url) == FALSE

\* if (rpcUrl), create_launchlab_token.js:308
UsesOverride(url) == url # "null"

\* one getVersion() probe of a selector that probes one candidate at a time
Probe ==
  /\ pc = "connect"
  /\ variant = "raydium_config" => UsesOverride(rpcUrl)
  /\ calls' = Append(calls, "getVersion")
  /\ \E up \in BOOLEAN :
       IF up
       THEN /\ connection' = probeIdx
            /\ UNCHANGED probeIdx
            /\ Continue
       ELSE IF probeIdx < NumCandidates(variant)
            THEN /\ probeIdx' = probeIdx + 1
                 /\ UNCHANGED <<connection, pc, err, emitted, exitCode>>
            ELSE /\ UNCHANGED <<connection, probeIdx>>
                 /\ Fail(ConnectError(variant))
  /\ UNCHANGED <<variant, params, balance, createArgs, extInfo, poolId,
                 createOutcome, poolOnChain,
                 buyError, buySig>>
  /\ UNCHANGED <<rpcUrl, selvars, valvars>>

\* what a failing getBalance ends as: checkAccountBalance of
\* create_raydium_token.js rethrows it, as "account not found" when the message
\* says so; the other scripts let it through
BalanceReadErrors(v) ==
  IF v = "raydium" THEN {"NetworkError", "AccountNotFound"} ELSE {"NetworkError"}

\* connection.getBalance(creator) and the comparison with the requirement
ReadBalance ==
  /\ pc = "balance"
  /\ calls' = Append(calls, "getBalance")
  /\ \/ /\ \E kind \in BalanceReadErrors(variant) : Fail(kind)
        /\ UNCHANGED balance
     \/ \E b \in 0..MaxBalance :
          /\ balance' = b
          /\ IF BalancePasses(variant, b, params.initialBuyAmount)
             THEN Continue
             ELSE Fail("InsufficientFunds")
  /\ UNCHANGED <<variant, params, probeIdx, connection, createArgs, extInfo, poolId,
                 createOutcome, poolOnChain, buyError, buySig>>
  /\ UNCHANGED <<rpcUrl, selvars, valvars>>

\* a failed submission retried: the workflow stays at the same operation
CreationFailedRetry(kind) == UNCHANGED <<pc, err, emitted, exitCode>>

\* an exception thrown by a creation submission propagates to the catch block
CreationFailed(kind) == Fail(kind)

\* createTokenMint (create_raydium_token.js) and createMint
\* (create_simple_lock_token.js): the rent query, then the transaction that
\* creates and initializes the mint account; create_raydium_token.js then sleeps
CreateMint ==
  /\ pc = "create_mint"
  /\ \/ /\ calls' = Append(calls, "getMinimumBalanceForRentExemptMint")
        /\ Fail("NetworkError")
     \/ /\ calls' = calls \o <<"getMinimumBalanceForRentExemptMint", "tx:create_mint">>
        /\ \E ok \in BOOLEAN : IF ok THEN Continue ELSE CreationFailed("SubmissionError")
  /\ UNCHANGED <<variant, params, probeIdx, connection, balance, createArgs,
                 extInfo, poolId, createOutcome, poolOnChain, buyError, buySig>>
  /\ UNCHANGED <<rpcUrl, selvars, valvars>>

\* createAccount and mintTo of create_simple_lock_token.js; the result is
\* written after mintTo
TokenTx ==
  /\ pc \in {"create_account", "mint_to"}
  /\ calls' = Append(calls, IF pc = "create_account" THEN "tx:create_account" ELSE "tx:mint_to")
  /\ \E ok \in BOOLEAN :
       IF ~ok THEN Fail("SubmissionError")
       ELSE IF pc = "mint_to" THEN Finish("null", "null") ELSE Continue
  /\ UNCHANGED <<variant, params, probeIdx, connection, balance, createArgs,
                 extInfo, poolId, createOutcome, poolOnChain, buyError, buySig>>
  /\ UNCHANGED <<rpcUrl, selvars, valvars>>

\* Raydium.load, directly or through initSdk / loadRaydiumSdk
LoadSdk ==
  /\ pc = "sdk"
  /\ calls' = Append(calls, "Raydium.load")
  /\ \E ok \in BOOLEAN : IF ok THEN Continue ELSE Fail("SdkLoadError")
  /\ UNCHANGED <<variant, params, probeIdx, connection, balance, createArgs,
                 extInfo, poolId, createOutcome, poolOnChain, buyError, buySig>>
  /\ UNCHANGED <<rpcUrl, selvars, valvars>>

\* a.mul(new BN(b)).div(new BN(c)) of bn.js, for b >= 0 and c > 0: exact, and
\* div truncates towards zero; computed in parts that stay below 2^31
BNMulDiv(a, b, c) ==
  LET m == IF a < 0 THEN 0 - a ELSE a
      q == (m \div c) * b + ((m % c) * b) \div c
  IN  IF a < 0 THEN 0 - q ELSE q

\* the percentage of the supply each script sells: 80 in
\* create_raydium_token.js (:220, and LAUNCHLAB_CONFIG.SELL_PERCENTAGE for its
\* second script) and create_launchlab_token.js (:98), 20 in
\* create_real_launchlab_token.js (:128); params.sellPercentage is read nowhere
SellPercentageOf(v) == IF v = "real_launchlab" THEN 20 ELSE 80

\* new BN(params.totalSupply.toString()) of create_launchlab_token.js:97
\* throws a TypeError when the file has no totalSupply
SupplyThrows(v, p) == v = "launchlab" /\ p.totalSupply = <<>>

\* the supply each script derives: new BN(totalSupply) is 0 for undefined
\* (create_raydium_token.js:219); params.totalSupply || 1_000_000_000 takes the
\* default for undefined and for 0 (:497, create_real_launchlab_token.js:122)
SupplyOf(v, p) ==
  CASE v = "raydium" -> IF p.totalSupply = <<>> THEN 0 ELSE p.totalSupply[1]
    [] v \in {"raydium_config", "real_launchlab"} ->
         IF p.totalSupply = <<>> \/ p.totalSupply[1] = 0
         THEN DefaultTotalSupply ELSE p.totalSupply[1]
    [] OTHER -> IF p.totalSupply = <<>> THEN 0 ELSE p.totalSupply[1]

\* the supply and the sell amount a script derives from the file, or the
\* exception the derivation throws
DeriveCurve(v, p) ==
  [threw |-> SupplyThrows(v, p),
   supply |-> IF SupplyThrows(v, p) THEN 0 ELSE SupplyOf(v, p),
   totalSellA |-> IF SupplyThrows(v, p) THEN 0
                  ELSE BNMulDiv(SupplyOf(v, p), SellPercentageOf(v), 100)]

\* what the creation call is given: initializeV2 of
\* create_real_launchlab_token.js is given amountB = initialBuyAmount and no mint;
\* the other scripts give the mint and no purchase amount
CreationArgs(v, p) ==
  [mint |-> IF v = "real_launchlab" THEN <<>> ELSE p.mintAddress,
   amountB |-> IF v = "real_launchlab" THEN p.initialBuyAmount ELSE 0,
   supply |-> DeriveCurve(v, p).supply,
   totalSellA |-> DeriveCurve(v, p).totalSellA,
   made |-> TRUE]

\* raydium.launchpad.createLaunchpad / create / initializeV2: builds the
\* creation transaction; what it returns may or may not hold an extInfo
BuildCreate ==
  /\ pc = "build"
  /\ IF DeriveCurve(variant, params).threw
     THEN /\ Fail("TypeError")
          /\ UNCHANGED <<calls, createArgs, extInfo>>
     ELSE /\ calls' = Append(calls, "launchpad.create")
          /\ createArgs' = CreationArgs(variant, params)
          /\ \/ /\ Fail("BuildError")
                /\ UNCHANGED extInfo
             \/ /\ extInfo' \in {"absent", "present"}
                /\ Continue
  /\ UNCHANGED <<variant, params, probeIdx, connection, balance, poolId,
                 createOutcome, poolOnChain, buyError, buySig>>
  /\ UNCHANGED <<rpcUrl, selvars, valvars>>

\* the buy's error left to the outer catch block
BuyFailedFatal(kind) ==
  /\ buyError' = kind
  /\ Fail("BuyStepError")

\* the buy's own catch block: the error is logged and the workflow goes on to
\* its response
BuyFailed(kind) ==
  /\ buyError' = kind
  /\ Finish(poolId, "null")

\* the two workflows of create_raydium_token.js once they hold a pool id: they
\* sleep and go on to the buy when initialBuyAmount > 0, and write the response
\* at once otherwise
BuyOrFinish(pool) ==
  /\ poolId' = pool
  /\ IF params.initialBuyAmount > 0
     THEN /\ pc' = "buy_build"
          /\ UNCHANGED <<err, emitted, exitCode>>
     ELSE Finish(pool, "null")

\* the code after a confirmed creation, up to the next await or the exit.
\* create_raydium_token.js:259 reads extInfo.poolId (a TypeError without an
\* extInfo); its second script takes "Unknown" without one (:540).
\* create_launchlab_token.js:137 reads extInfo, which that script never
\* declares (a ReferenceError).  create_real_launchlab_token.js writes its
\* result at once, with the poolId (or "N/A") and the initialBuySignature (or
\* null) of the SDK's result.
AfterConfirmed ==
  CASE variant = "launchlab" -> Fail("ReferenceError") /\ UNCHANGED poolId
    [] variant = "real_launchlab" ->
         \E pool \in {"pool", "N/A"} :
           \E sig \in (IF createArgs.amountB > 0 THEN {"null", "sig"} ELSE {"null"}) :
             /\ poolId' = pool
             /\ Finish(pool, sig)
    [] variant = "raydium" ->
         IF extInfo = "present"
         THEN BuyOrFinish("pool")
         ELSE Fail("TypeError") /\ UNCHANGED poolId
    [] OTHER ->
         BuyOrFinish(IF extInfo = "present" THEN "pool" ELSE "Unknown")

\* execute(): the creation transaction is sent and its confirmation awaited.
\* maxRetries (create_launchlab_token.js:131, create_raydium_token.js:148) lets
\* the RPC node rebroadcast the one signed transaction: it is one submission.
Execute ==
  /\ pc = "execute"
  /\ calls' = Append(calls, "tx:create_curve")
  /\ \/ /\ createOutcome' = "confirmed"
        /\ poolOnChain' = TRUE
        /\ AfterConfirmed
     \/ /\ createOutcome' = "rejected"
        /\ poolOnChain' = FALSE
        /\ CreationFailed("SubmissionError")
        /\ UNCHANGED poolId
     \/ /\ createOutcome' = "timeout"
        /\ poolOnChain' \in BOOLEAN
        /\ CreationFailed("ConfirmationTimeout")
        /\ UNCHANGED poolId
  /\ UNCHANGED <<variant, params, probeIdx, connection, balance, createArgs,
                 extInfo, buyError, buySig>>
  /\ UNCHANGED <<rpcUrl, selvars, valvars>>

\* raydium.launchpad.buy(..): builds the buy, after the sleep
BuyBuild ==
  /\ pc = "buy_build"
  /\ calls' = Append(calls, "launchpad.buy")
  /\ \/ BuyFailed("BuyBuildError")
     \/ /\ pc' = "buy_execute"
        /\ UNCHANGED <<buyError, err, emitted, exitCode>>
  /\ UNCHANGED <<variant, params, probeIdx, connection, balance, createArgs,
                 extInfo, poolId, createOutcome, poolOnChain, buySig>>
  /\ UNCHANGED <<rpcUrl, selvars, valvars>>

\* buyExecute(): the buy is sent
BuyExecute ==
  /\ pc = "buy_execute"
  /\ calls' = Append(calls, "tx:buy")
  /\ \/ /\ BuyFailed("BuyExecuteError")
        /\ UNCHANGED buySig
     \/ /\ buySig' = "sig"
        /\ Finish(poolId, "sig")
        /\ UNCHANGED buyError
  /\ UNCHANGED <<variant, params, probeIdx, connection, balance, createArgs,
                 extInfo, poolId, createOutcome, poolOnChain>>
  /\ UNCHANGED <<rpcUrl, selvars, valvars>>

\* the operations that await a network call, and the call each awaits first
AwaitSteps ==
  {"connect", "balance", "create_mint", "create_account", "mint_to", "sdk",
   "build", "execute", "buy_build", "buy_execute"}

CallOf(p) ==
  CASE p = "connect" -> "getVersion"
    [] p = "balance" -> "getBalance"
    [] p = "create_mint" -> "getMinimumBalanceForRentExemptMint"
    [] p = "create_account" -> "tx:create_account"
    [] p = "mint_to" -> "tx:mint_to"
    [] p = "sdk" -> "Raydium.load"
    [] p = "build" -> "launchpad.create"
    [] p = "execute" -> "tx:create_curve"
    [] p = "buy_build" -> "launchpad.buy"
    [] OTHER -> "tx:buy"

\* createConnection is in its concurrent branch
Concurrent == variant = "raydium_config" /\ pc = "connect" /\ ~UsesOverride(rpcUrl)

\* the awaited call never settles.  No script passes a timeout or an abort
\* signal to a call, races it against a timer, or sets a timer of its own: the
\* await never resumes, and nothing else is scheduled
NeverReturns ==
  /\ pc \in AwaitSteps
  /\ ~Concurrent
  /\ calls' = Append(calls, CallOf(pc))
  /\ pc' = "hung"
  /\ UNCHANGED <<variant, params, probeIdx, connection, balance, createArgs,
                 extInfo, poolId, createOutcome, poolOnChain, buyError, buySig,
                 emitted, exitCode, err>>
  /\ UNCHANGED <<rpcUrl, selvars, valvars>>

Next ==
  \/ LoadModule
  \/ ReadParams
  \/ Validate
  \/ Probe
  \/ ReadBalance
  \/ CreateMint
  \/ TokenTx
  \/ LoadSdk
  \/ BuildCreate
  \/ Execute
  \/ BuyBuild
  \/ BuyExecute
  \/ NeverReturns

Spec == Init /\ [][Next]_vars

----------------------------------------------------------------------------
(* createConnection() without a URL: every candidate probed at once *)

workflowvars ==
  <<variant, pc, params, probeIdx, connection, balance, createArgs, extInfo,
    poolId, createOutcome, poolOnChain, buyError, buySig, calls, emitted, exitCode, err>>

\* FAST_RPC_ENDPOINTS.map(async (endpoint) => ..): every probe takes its start
\* time and calls getVersion(), in the order of the list, before any answers
StartProbes ==
  /\ Concurrent
  /\ \A i \in 1..NumFastEndpoints : probes[i].state = "idle"
  /\ probes' = [i \in 1..NumFastEndpoints |->
                  [state |-> "pending", start |-> clock, latency |-> 0]]
  /\ calls' = calls \o [i \in 1..NumFastEndpoints |-> "getVersion"]
  /\ UNCHANGED <<variant, pc, params, probeIdx, connection, balance, createArgs,
                 extInfo, poolId, createOutcome, poolOnChain, buyError, buySig,
                 emitted, exitCode, err>>
  /\ UNCHANGED <<rpcUrl, clock, doneOrder, valvars>>

\* a millisecond passes while probes are out
Tick ==
  /\ Concurrent
  /\ \E i \in 1..NumFastEndpoints : probes[i].state = "pending"
  /\ clock < MaxLatency
  /\ clock' = clock + 1
  /\ UNCHANGED <<workflowvars, rpcUrl, probes, doneOrder, valvars>>

\* getVersion() of one probe settles: the probe resolves with its latency
\* (Date.now() - start), or its catch block resolves it with null
ProbeAnswers ==
  /\ Concurrent
  /\ \E i \in 1..NumFastEndpoints :
       /\ probes[i].state = "pending"
       /\ \E ok \in BOOLEAN :
            probes' = [probes EXCEPT ![i] =
                         IF ok
                         THEN [state |-> "ok", start |-> @.start,
                               latency |-> clock - @.start]
                         ELSE [state |-> "failed", start |-> @.start, latency |-> 0]]
       /\ doneOrder' = Append(doneOrder, i)
  /\ UNCHANGED <<workflowvars, rpcUrl, clock, valvars>>

\* getVersion() of one probe never settles
ProbeNeverAnswers ==
  /\ Concurrent
  /\ \E i \in 1..NumFastEndpoints :
       /\ probes[i].state = "pending"
       /\ probes' = [probes EXCEPT ![i].state = "hung"]
  /\ UNCHANGED <<workflowvars, rpcUrl, clock, doneOrder, valvars>>

\* what a probe that failed resolves with
Null == [endpoint |-> 0, latency |-> 0]

\* the array Promise.allSettled resolves with, were it filled as the probes settle
AllSettledInCompletionOrder(ps) ==
  [k \in 1..NumFastEndpoints |->
     [status |-> "fulfilled",
      value |-> IF ps[doneOrder[k]].state = "ok"
                THEN [endpoint |-> doneOrder[k], latency |-> ps[doneOrder[k]].latency]
                ELSE Null]]

\* the array Promise.allSettled resolves with: one entry per probe, in the
\* order of the candidates; every probe is fulfilled, with null when it failed
AllSettled(ps) ==
  [i \in 1..NumFastEndpoints |->
     [status |-> "fulfilled",
      value |-> IF ps[i].state = "ok"
                THEN [endpoint |-> i, latency |-> ps[i].latency]
                ELSE Null]]

\* the filter that lets every settled probe through
KeepAll(results) == [i \in 1..Len(results) |-> results[i].value]

\* .filter(result => result.status === "fulfilled" && result.value !== null)
\* .map(result => result.value)
ValidConnections(results) ==
  LET kept == SelectSeq(results,
                        LAMBDA r : r.status = "fulfilled" /\ r.value # Null)
  IN  [i \in 1..Len(kept) |-> kept[i].value]

\* the array left as the filter returns it
NoSort(conns) == conns

\* a sort that puts an element before those of the same latency
RECURSIVE SortTiesReversed(_)
SortTiesReversed(conns) ==
  IF conns = <<>> THEN <<>>
  ELSE LET x == conns[Len(conns)]
           sorted == SortTiesReversed(SubSeq(conns, 1, Len(conns) - 1))
           k == Cardinality({j \in 1..Len(sorted) : sorted[j].latency < x.latency})
       IN  SubSeq(sorted, 1, k) \o <<x>> \o SubSeq(sorted, k + 1, Len(sorted))

\* .sort((a, b) => a.latency - b.latency): Array.prototype.sort is stable,
\* elements of the same latency keep their order
RECURSIVE SortByLatency(_)
SortByLatency(conns) ==
  IF conns = <<>> THEN <<>>
  ELSE LET x == conns[Len(conns)]
           sorted == SortByLatency(SubSeq(conns, 1, Len(conns) - 1))
           k == Cardinality({j \in 1..Len(sorted) : sorted[j].latency <= x.latency})
       IN  SubSeq(sorted, 1, k) \o <<x>> \o SubSeq(sorted, k + 1, Len(sorted))

\* await Promise.allSettled(..) resumes once every probe has settled; the
\* valid connections are sorted and the first is returned, or "All RPC
\* endpoints failed" is thrown when there is none
SelectFastest ==
  /\ Concurrent
  /\ \A i \in 1..NumFastEndpoints : probes[i].state \in {"ok", "failed"}
  /\ LET validConnections == SortByLatency(ValidConnections(AllSettled(probes)))
     IN  IF Len(validConnections) = 0
         THEN /\ Fail("NoEndpointAvailable")
              /\ UNCHANGED connection
         ELSE /\ connection' = validConnections[1].endpoint
              /\ Continue
  /\ UNCHANGED <<variant, params, probeIdx, balance, createArgs, extInfo, poolId,
                 createOutcome, poolOnChain, buyError, buySig, calls>>
  /\ UNCHANGED <<rpcUrl, selvars, valvars>>

\* the three selectors, each called on its own: getConnection,
\* getFastestConnection, and createConnection with a URL or with none
InitSelector ==
  /\ variant \in {"raydium", "raydium_config", "real_launchlab"}
  /\ pc = "connect"
  /\ Fresh
  /\ rpcUrl \in (IF variant = "raydium_config" THEN {"null", "custom"} ELSE {"none"})
  /\ clock = 0
  /\ probes = [i \in 1..NumFastEndpoints |-> IdleProbe]
  /\ doneOrder = <<>>
  /\ ValidatorIdle

\* the one getVersion() a sequential selector awaits never settles
SelectorNeverReturns == pc = "connect" /\ NeverReturns

NextSelector ==
  \/ Probe
  \/ SelectorNeverReturns
  \/ StartProbes
  \/ Tick
  \/ ProbeAnswers
  \/ ProbeNeverAnswers
  \/ SelectFastest

SpecSelector == InitSelector /\ [][NextSelector]_vars

----------------------------------------------------------------------------
(* The address validators and the curve derivation, each called on its own *)

Verdict(b) == IF b THEN "valid" ELSE "invalid"

\* a validator that keeps a position between calls, as a regular expression
\* with the g flag does: it accepts nothing on a second call
CallValidatorGlobalRegex(f, value) ==
  /\ valResult[f] = <<>>
  /\ IF f = "validateLockAddressFixed"
     THEN validateLockAddressFixed(value)
     ELSE validateLockAddress(value)

\* validateLockAddressFixed(mintAddress) / validateLockAddress(addr)
CallValidator(f, value) ==
  IF f = "validateLockAddressFixed"
  THEN validateLockAddressFixed(value)
  ELSE validateLockAddress(value)

\* one validator is called with the value, again or for the first time
ApplyValidator ==
  /\ pc = "validator"
  /\ \E f \in Validators :
       /\ Len(valResult[f]) < MaxCalls
       /\ valResult' = [valResult EXCEPT ![f] =
                          Append(@, Verdict(CallValidator(f, valInput)))]
  /\ UNCHANGED <<workflowvars, rpcUrl, selvars, valInput, curveOut>>

\* the curve parameters are derived from the file, again or for the first time
ApplyDeriveCurve ==
  /\ pc = "validator"
  /\ Len(curveOut) < MaxCalls
  /\ curveOut' = Append(curveOut, DeriveCurve(variant, params))
  /\ UNCHANGED <<workflowvars, rpcUrl, selvars, valInput, valResult>>

\* a value for the validators, and a script with a parameter file for its
\* curve derivation
InitValidator ==
  /\ variant \in Variants \ {"simple_lock"}
  /\ pc = "validator"
  /\ params \in CurveFiles
  /\ Unstarted
  /\ SelectorIdle
  /\ valInput \in ValInputs
  /\ valResult = NoResults
  /\ curveOut = <<>>

NextValidator ==
  \/ ApplyValidator
  \/ ApplyDeriveCurve

SpecValidator == InitValidator /\ [][NextValidator]_vars

----------------------------------------------------------------------------
(* The log of calls *)

\* the calls that send a transaction
SubmissionCalls ==
  {"tx:create_mint", "tx:create_curve", "tx:create_account", "tx:mint_to", "tx:buy"}

\* how many calls of the log are in S
Count(S) == Cardinality({i \in DOMAIN calls : calls[i] \in S})

Exited == pc = "exited"

AllEmitted(status) == \A i \in DOMAIN emitted : emitted[i].status = status

----------------------------------------------------------------------------
(* C1 *)

\* C1 (as claimed): no balance read, creation transaction or buy is made unless
\* the mint address passes the address validator, and a run whose address fails
\* the validator ends with an error result and no submission.
C1_ValidatedBeforeSpending ==
  /\ Count({"getBalance"} \cup SubmissionCalls) > 0
       => validateLockAddressFixed(JsString(params.mintAddress))
  /\ (Exited /\ params # NoParams /\ ~validateLockAddressFixed(JsString(params.mintAddress)))
       => /\ emitted # <<>>
          /\ AllEmitted("error")
          /\ Count(SubmissionCalls) = 0

----------------------------------------------------------------------------
(* C2 *)

\* C2: a transaction is submitted only after getBalance has answered in the
\* same run with a balance that is not below the script's requirement; a run
\* whose balance is below the requirement ends with error results of kind
\* InsufficientFunds, exit status 1 and no submission.
C2_BalanceGuardBeforeCreation ==
  /\ \A i \in DOMAIN calls :
       calls[i] \in SubmissionCalls =>
         /\ \E j \in 1..(i - 1) : calls[j] = "getBalance"
         /\ balance >= Required(variant, params.initialBuyAmount)
  /\ (Exited /\ balance # -1 /\ balance < Required(variant, params.initialBuyAmount))
       => /\ emitted # <<>>
          /\ \A i \in DOMAIN emitted :
               emitted[i].status = "error" /\ emitted[i].error = "InsufficientFunds"
          /\ exitCode = 1
          /\ Count(SubmissionCalls) = 0

\* a run that ended one unit short of the requirement
C2_Witness ==
  /\ Exited
  /\ balance = Required(variant, params.initialBuyAmount) - 1
  /\ err = "InsufficientFunds"
  /\ emitted # <<>>

----------------------------------------------------------------------------
(* C3 *)

\* C3 (as claimed): at most one creation transaction is submitted for the mint
\* in one run, counting every transaction that creates an account for the mint
\* identity (the mint account, the curve).
C3_AtMostOneCreationTx == Count({"tx:create_mint", "tx:create_curve"}) <= 1

\* C3 (amended): at most one curve-creation transaction and at most one
\* mint-account transaction is submitted in one run, and once a creation
\* submission was rejected or failed the run has ended with that submission
\* as its last call.
C3_AtMostOneCurveCreation ==
  /\ Count({"tx:create_curve"}) <= 1
  /\ Count({"tx:create_mint"}) <= 1
  /\ createOutcome \in {"rejected", "timeout"}
       => Exited /\ calls[Len(calls)] = "tx:create_curve"
  /\ err = "SubmissionError"
       => Exited /\ calls[Len(calls)] \in SubmissionCalls

\* the first workflow of create_raydium_token.js after its curve creation was
\* rejected: the mint-account transaction and one curve creation were sent
C3_Witness ==
  /\ Exited
  /\ variant = "raydium"
  /\ createOutcome = "rejected"
  /\ Count({"tx:create_mint"}) = 1
  /\ Count({"tx:create_curve"}) = 1

----------------------------------------------------------------------------
(* C4 *)

\* C4 (as claimed): a process writes at most one result object.
C4_AtMostOneResult == Len(emitted) <= 1

----------------------------------------------------------------------------
(* C5 *)

\* C5 (as claimed): a process that has exited has written a result object.
C5_ResultBeforeExit == Exited => Len(emitted) >= 1

----------------------------------------------------------------------------
(* C6 *)

\* C6: a run whose buy failed after a confirmed creation ends with success
\* results only, each with initialBuySignature null, and exit status 0.
C6_BuyFailureKeepsSuccess ==
  buyError # "none" =>
    /\ Exited
    /\ createOutcome = "confirmed"
    /\ emitted # <<>>
    /\ \A i \in DOMAIN emitted :
         emitted[i].status = "success" /\ emitted[i].initialBuySignature = "null"
    /\ exitCode = 0

\* a run whose buy transaction failed, and one whose buy could not be built
C6_Witness ==
  /\ Exited
  /\ buyError = "BuyExecuteError"
  /\ createOutcome = "confirmed"
  /\ Count({"tx:buy"}) = 1

----------------------------------------------------------------------------
(* C7 *)

\* C7 (as claimed): a buy is built or sent only when initialBuyAmount > 0 and
\* after the creation of the same run was confirmed, and the creation
\* submission itself carries no purchase.
C7_BuyOnlyAfterConfirmedCreation ==
  /\ \A i \in DOMAIN calls :
       calls[i] \in {"launchpad.buy", "tx:buy"} =>
         /\ params.initialBuyAmount > 0
         /\ createOutcome = "confirmed"
         /\ \E j \in 1..(i - 1) : calls[j] = "tx:create_curve"
  /\ createArgs.amountB = 0

----------------------------------------------------------------------------
(* C8 *)

\* C8 (as claimed): a run whose creation confirmation timed out has queried
\* the chain for the mint exactly once after the submission, and has submitted
\* the creation once.
C8_RequeryOnceAfterTimeout ==
  (Exited /\ createOutcome = "timeout") =>
    /\ Count({"tx:create_curve"}) = 1
    /\ Cardinality({i \in DOMAIN calls :
                      /\ calls[i] = "getAccountInfo"
                      /\ \E j \in 1..(i - 1) : calls[j] = "tx:create_curve"}) = 1

----------------------------------------------------------------------------
(* C9 *)

\* C9 (as claimed): a run whose creation confirmation timed out while the pool
\* exists on chain ends with a success result.
C9_TimeoutWithPoolIsSuccess ==
  (Exited /\ createOutcome = "timeout" /\ poolOnChain) =>
    /\ emitted # <<>>
    /\ AllEmitted("success")

----------------------------------------------------------------------------
(* C10 *)

\* C10: once an exception has been thrown the run has ended, every result
\* written reports that exception, and no call is made and no other exception
\* replaces it from then on.
C10_FirstErrorShortCircuits ==
  /\ [](err # "none" =>
          /\ Exited
          /\ exitCode = 1
          /\ \A i \in DOMAIN emitted :
               emitted[i].status = "error" /\ emitted[i].error = err)
  /\ [][err # "none" => (calls' = calls /\ err' = err /\ emitted' = emitted)]_vars

\* a run that ended because no endpoint answered, and one that ended on a
\* confirmation timeout
C10_Witness ==
  /\ Exited
  /\ err \in {"NoEndpointAvailable", "ConfirmationTimeout"}
  /\ emitted # <<>>
  /\ emitted[Len(emitted)].error = err

----------------------------------------------------------------------------
(* C11 *)

\* C11: the process exits with code 0 exactly when the result it wrote has
\* status success; a run that wrote an error result, or no success result,
\* exits with a non-zero code.
C11_ExitZeroIffSuccess ==
  /\ Exited => exitCode \in {0, 1}
  /\ exitCode = 0 => (Exited /\ emitted # <<>> /\ AllEmitted("success"))
  /\ (Exited /\ (emitted = <<>> \/ \E i \in DOMAIN emitted : emitted[i].status = "error"))
       => exitCode = 1
  /\ (\E i \in DOMAIN emitted : emitted[i].status = "success") => exitCode = 0

\* the config-based workflow has written its response and its .then handler
\* has called process.exit(0)
C11_Witness ==
  /\ Exited
  /\ variant = "raydium_config"
  /\ exitCode = 0
  /\ emitted # <<>>
  /\ emitted[1].status = "success"

----------------------------------------------------------------------------
(* C12 *)

\* C12 (as claimed): a run with a valid vanity mint address, a sufficient
\* balance, no initial buy and a confirmed creation transaction ends with a
\* success result that carries the creation signature and a pool id and has a
\* null initialBuySignature.
C12_ConfirmedCreationReportsSuccess ==
  (/\ Exited
   /\ createOutcome = "confirmed"
   /\ params.initialBuyAmount = 0
   /\ validateLockAddressFixed(JsString(params.mintAddress))
   /\ BalancePasses(variant, balance, params.initialBuyAmount))
  => /\ emitted # <<>>
     /\ \A i \in DOMAIN emitted :
          /\ emitted[i].status = "success"
          /\ emitted[i].signature = "txId"
          /\ emitted[i].poolId # "none"
          /\ emitted[i].initialBuySignature = "null"

----------------------------------------------------------------------------
(* C13 *)

\* the characters of chars end with word, whatever the case of their letters
EndsWithIgnoringCase(chars, word) ==
  /\ Len(chars) >= Len(word)
  /\ \A i \in 1..Len(word) :
       chars[Len(chars) - Len(word) + i] \in {word[i], LowerChar(word[i])}

\* a string of 32 to 44 characters that ends with LOCK or LCK in any case
IsVanityAddress(value) ==
  /\ value.type = "string"
  /\ Len(value.chars) >= 32
  /\ Len(value.chars) <= 44
  /\ \/ EndsWithIgnoringCase(value.chars, Str4("L","O","C","K"))
     \/ EndsWithIgnoringCase(value.chars, Str3("L","C","K"))

\* C13: each address validator answers valid exactly for the strings of 32 to
\* 44 characters that end with LOCK or LCK in any letter case, and invalid for
\* every other value: wrong length, other suffix, empty, or not a string.
C13_ValidatorExact ==
  \A f \in Validators :
    \A i \in DOMAIN valResult[f] :
      valResult[f][i] = "valid" <=> IsVanityAddress(valInput)

\* both validators have accepted a 32-character address ending in "LocK"
C13_Witness ==
  /\ valResult["validateLockAddressFixed"] = <<"valid">>
  /\ valResult["validateLockAddress"] = <<"valid">>
  /\ Len(valInput.chars) = 32
  /\ endsWith(valInput.chars, Str4("L","o","c","K"))

----------------------------------------------------------------------------
(* C14 *)

\* the selector's call is over
SelectorDone == pc \notin {"connect", "hung"}

\* createConnection() has returned a connection from its concurrent branch
ConcurrentReturned ==
  /\ variant = "raydium_config"
  /\ rpcUrl = "null"
  /\ SelectorDone
  /\ err = "none"

ProbeOk(i) == probes[i].state = "ok"

\* C14: the concurrent selector returns the connection of a probe that
\* succeeded, and no successful probe measured a lower latency; a failed
\* candidate is never selected.
C14_MinimumLatencySelected ==
  ConcurrentReturned =>
    /\ connection \in 1..NumFastEndpoints
    /\ ProbeOk(connection)
    /\ \A j \in 1..NumFastEndpoints :
         ProbeOk(j) => probes[connection].latency <= probes[j].latency

\* latencies 2, 1 and 3 for the first three candidates, the fourth failed: the
\* second is returned
C14_Witness ==
  /\ ConcurrentReturned
  /\ ProbeOk(1) /\ probes[1].latency = 2
  /\ ProbeOk(2) /\ probes[2].latency = 1
  /\ ProbeOk(3) /\ probes[3].latency = 3
  /\ probes[4].state = "failed"
  /\ connection = 2

----------------------------------------------------------------------------
(* C15 *)

\* C15: of the successful probes that measured the latency of the returned
\* one, the returned one comes first in the candidate list.
C15_TiesByCandidateOrder ==
  ConcurrentReturned =>
    /\ connection \in 1..NumFastEndpoints
    /\ \A j \in 1..NumFastEndpoints :
         (ProbeOk(j) /\ probes[j].latency = probes[connection].latency)
           => connection <= j

\* where candidate i stands in the order of settling
SettledAt(i) == CHOOSE k \in DOMAIN doneOrder : doneOrder[k] = i

\* a later candidate measured the same latency as the returned one and
\* settled before it
C15_Witness ==
  /\ ConcurrentReturned
  /\ connection \in 1..NumFastEndpoints
  /\ \E j \in 1..NumFastEndpoints :
       /\ j > connection
       /\ ProbeOk(j)
       /\ probes[j].latency = probes[connection].latency
       /\ SettledAt(j) < SettledAt(connection)

----------------------------------------------------------------------------
(* C16 *)

\* every candidate of the list was probed and none answered: all four
\* concurrent probes failed, or the three sequential ones were made and left
\* no connection
AllCandidatesFailed ==
  IF variant = "raydium_config"
  THEN rpcUrl = "null" /\ \A i \in 1..NumFastEndpoints : probes[i].state = "failed"
  ELSE connection = 0 /\ Count({"getVersion"}) = 3

\* C16: a selector that walks a candidate list ends with "all endpoints
\* failed" exactly when every candidate's probe failed; otherwise the failed
\* probes are swallowed and it returns the connection of a candidate that
\* answered.
C16_FailsOnlyOnExhaustion ==
  SelectorDone =>
    /\ err = "NoEndpointAvailable" <=> AllCandidatesFailed
    /\ (rpcUrl \in {"null", "none"} /\ err = "none") =>
         /\ connection # 0
         /\ variant = "raydium_config" => ProbeOk(connection)
         /\ variant # "raydium_config" => connection = Count({"getVersion"})
    /\ rpcUrl \in {"null", "none"} => err \in {"none", "NoEndpointAvailable"}

\* a connection returned although some candidate failed: by the concurrent
\* selector, or by a sequential one on its third candidate
C16_Witness ==
  /\ SelectorDone
  /\ err = "none"
  /\ \/ ConcurrentReturned /\ probes[1].state = "failed"
     \/ variant = "raydium" /\ connection = 3

----------------------------------------------------------------------------
(* C17 *)

\* C17: when createConnection is given a URL no candidate of the list is
\* probed and one getVersion() is made, against the URL; the connection
\* returned is the URL's, and when the check fails the call fails with the
\* check's error, the list untouched.
C17_OverrideCheckedOnce ==
  (variant = "raydium_config" /\ rpcUrl \notin {"null", "none"}) =>
    /\ \A i \in 1..NumFastEndpoints : probes[i].state = "idle"
    /\ Count({"getVersion"}) <= 1
    /\ pc # "connect" => Count({"getVersion"}) = 1
    /\ SelectorDone =>
         \/ err = "none" /\ connection = 1
         \/ err = "NetworkError" /\ connection = 0 /\ Exited

\* the check of the URL failed and the call failed with it
C17_Witness ==
  /\ variant = "raydium_config"
  /\ rpcUrl = "custom"
  /\ err = "NetworkError"
  /\ Count({"getVersion"}) = 1
  /\ Exited

----------------------------------------------------------------------------
(* C18 *)

\* a probe of the selector never answers while no other is still out
HungProbeOthersSettled ==
  /\ pc \in {"connect", "hung"}
  /\ pc = "hung" \/ \E i \in 1..NumFastEndpoints : probes[i].state = "hung"
  /\ \A i \in 1..NumFastEndpoints : probes[i].state # "pending"

\* C18 (as claimed): every probe is bounded by a timeout: when a probe never
\* answers and the other probes have completed, the selector can still go on
\* to return a connection or the exhaustion error.
C18_HungProbeDoesNotBlock ==
  HungProbeOthersSettled => ENABLED NextSelector

----------------------------------------------------------------------------
(* C19 *)

\* C19 (as claimed): a run never hangs: whenever it has not ended it can take
\* a step, also when a network call never returns (a deadline abandons the
\* call and the run reports a timeout or network error).
C19_NoRunHangs ==
  Exited \/ ENABLED Next

----------------------------------------------------------------------------
(* C20 *)

\* the fixed part of each script's requirement
BaseCreationCost(v) ==
  CASE v = "raydium" -> MinRequiredRaydium
    [] v = "raydium_config" -> MinRequiredRaydiumConfig
    [] v = "launchlab" -> MinRequiredLaunchlab
    [] v = "real_launchlab" -> MinRequiredReal
    [] OTHER -> MinRequiredSimple

\* C20 (as claimed): once the balance has been read, the check has passed
\* exactly when the balance is at least the script's base creation cost plus
\* initialBuyAmount.
C20_RequirementGrowsWithBuy ==
  balance # -1 =>
    (err # "InsufficientFunds"
       <=> balance >= BaseCreationCost(variant) + params.initialBuyAmount)

----------------------------------------------------------------------------
(* C21 *)

\* the texts an emitted result carries
Texts(r) ==
  {r.message[k] : k \in DOMAIN r.message}
    \cup {r.technical_error[k] : k \in DOMAIN r.technical_error}

\* C21 (as claimed): every result that reports a failed balance check names the
\* required amount and names the current balance.
C21_InsufficientFundsCarriesBoth ==
  \A i \in DOMAIN emitted :
    emitted[i].error = "InsufficientFunds" =>
      /\ \E t \in Texts(emitted[i]) : includes(t, "<required>")
      /\ \E t \in Texts(emitted[i]) : includes(t, "<current>")

----------------------------------------------------------------------------
(* C22 *)

\* floor(s * q / 100) for s >= 0
FloorPercent(s, q) == (s \div 100) * q + ((s % 100) * q) \div 100

\* C22 (as claimed): when the file gives a positive totalSupply and a
\* sellPercentage in 0..100 (80 when it gives none), the creation call is
\* given floor(totalSupply * sellPercentage / 100) as the sell amount.
C22_SellAmountFromParameters ==
  (/\ createArgs.made
   /\ params.totalSupply # <<>>
   /\ params.totalSupply[1] > 0
   /\ params.sellPercentage # <<>> => params.sellPercentage[1] \in 0..100)
  => createArgs.totalSellA =
       FloorPercent(params.totalSupply[1],
                    IF params.sellPercentage = <<>> THEN 80
                    ELSE params.sellPercentage[1])

----------------------------------------------------------------------------
(* C23 *)

\* C23 (as claimed): in every run that reaches the creation call the sell
\* amount given to it is at most the supply given to it.
C23_SellAmountWithinSupply ==
  createArgs.made => createArgs.totalSellA <= createArgs.supply

----------------------------------------------------------------------------
(* C24 *)

\* the file gives a totalSupply <= 0 or a sellPercentage outside 0..100
InvalidCurveInput ==
  \/ params.totalSupply # <<>> /\ params.totalSupply[1] <= 0
  \/ params.sellPercentage # <<>> /\ params.sellPercentage[1] \notin 0..100

\* C24 (as claimed): a run whose file gives a totalSupply <= 0 or a
\* sellPercentage outside 0..100 makes no network call and no creation call,
\* and ends with a validation error.
C24_InvalidCurveInputRejected ==
  InvalidCurveInput =>
    /\ calls = <<>>
    /\ ~createArgs.made
    /\ Exited => (exitCode = 1 /\ err \in {"ValidationError", "KeypairDecodeError"})

----------------------------------------------------------------------------
(* C25 *)

\* C25: a run whose parameter file is missing or does not parse has ended with
\* error results that report it and exit status 1, with no parameters read and
\* no call made: no probe, balance read, SDK load or submission.
C25_BadParamsFileStopsFirst ==
  err \in {"ParamsFileNotFound", "ParamsParseError"} =>
    /\ Exited
    /\ exitCode = 1
    /\ params = NoParams
    /\ calls = <<>>
    /\ emitted # <<>>
    /\ \A i \in DOMAIN emitted :
         emitted[i].status = "error" /\ emitted[i].error = err

\* the config-based workflow, which calls createConnection right after the
\* file, has ended on a file that does not parse
C25_Witness ==
  /\ variant = "raydium_config"
  /\ err = "ParamsParseError"
  /\ Exited
  /\ calls = <<>>
  /\ Len(emitted) = 1

----------------------------------------------------------------------------
(* C26 *)

\* C26 (as claimed): every error result written has a user-facing message and
\* a technical detail.
C26_ErrorHasMessageAndDetail ==
  \A i \in DOMAIN emitted :
    emitted[i].status = "error" =>
      /\ emitted[i].message # <<>>
      /\ emitted[i].technical_error # <<>>

----------------------------------------------------------------------------
(* C27 *)

\* C27 (as claimed): when the initial buy has failed, the success result
\* written has a null initialBuySignature and records the buy's error.
C27_FailedBuyRecorded ==
  (Exited /\ buyError # "none") =>
    \A i \in DOMAIN emitted :
      emitted[i].status = "success" =>
        /\ emitted[i].initialBuySignature = "null"
        /\ emitted[i].initialBuyError # <<>>

----------------------------------------------------------------------------
(* C28 *)

\* the messages the catch blocks hold for a balance that is too low
InsufficientFundsMessages ==
  { "Insufficient SOL balance. Please add more SOL to your wallet.",
    "Insufficient SOL balance for LaunchLab creation." }

\* the message the catch block holds for an address without the suffix
VanityAddressMessages ==
  { "Vanity address generation failed - address doesn't end with 'lock'." }

\* C28 (as claimed): a result that reports the workflow's own balance check
\* has the insufficient-funds message as its user-facing message, and one that
\* reports the workflow's own address check has the vanity-address message;
\* neither has the text of the exception.
C28_OwnChecksGetFriendlyMessage ==
  \A i \in DOMAIN emitted :
    /\ emitted[i].error = "InsufficientFunds" =>
         \E k \in DOMAIN emitted[i].message :
           emitted[i].message[k] \in InsufficientFundsMessages
    /\ emitted[i].error = "ValidationError" =>
         \E k \in DOMAIN emitted[i].message :
           emitted[i].message[k] \in VanityAddressMessages

----------------------------------------------------------------------------
(* C29 *)

----------------------------------------------------------------------------
(* C30 *)

\* the address ends with LOCK or LCK, whatever the case of its letters
HasVanitySuffix(address) ==
  \/ EndsWithIgnoringCase(address, Str4("L","O","C","K"))
  \/ EndsWithIgnoringCase(address, Str3("L","C","K"))

\* C30 (as claimed): every success result has a verifiedLockSuffix that is
\* true when the mint address ends with LOCK or LCK in any case, and false
\* when it does not.
C30_VerifiedSuffixIsExact ==
  \A i \in DOMAIN emitted :
    emitted[i].status = "success" =>
      emitted[i].verifiedLockSuffix =
        (IF HasVanitySuffix(params.mintAddress) THEN "true" ELSE "false")

----------------------------------------------------------------------------
(* C31 *)

\* the candidate the outcomes and latencies of the probes single out: it
\* answered, no candidate that answered measured less, and none before it in
\* FAST_RPC_ENDPOINTS measured the same.  The order of settling is not read
FastestByOutcome(ps) ==
  CHOOSE i \in 1..NumFastEndpoints :
    /\ ps[i].state = "ok"
    /\ \A j \in 1..NumFastEndpoints :
         ps[j].state = "ok" =>
           \/ ps[i].latency < ps[j].latency
           \/ ps[i].latency = ps[j].latency /\ i <= j

\* C31: the connection the concurrent selector returns is fixed by each
\* probe's outcome and latency and by the order of the candidate list; runs
\* whose probes settle in different orders with the same outcomes and
\* latencies return the same endpoint.
C31_SelectionIgnoresCompletionOrder ==
  ConcurrentReturned =>
    /\ \E i \in 1..NumFastEndpoints : ProbeOk(i)
    /\ connection = FastestByOutcome(probes)

\* the four probes answered within the same millisecond, the last candidate
\* first and the first candidate last, and the first candidate is returned
C31_Witness ==
  /\ ConcurrentReturned
  /\ doneOrder = <<4, 3, 2, 1>>
  /\ \A i \in 1..NumFastEndpoints : ProbeOk(i) /\ probes[i].latency = 1
  /\ connection = 1

----------------------------------------------------------------------------
(* C32 *)

\* getConnection or getFastestConnection is the selector in use
Sequential == variant \in {"raydium", "real_launchlab"}

\* what the candidates of RPC_ENDPOINTS might be: each answers or not, after
\* some number of milliseconds
Worlds == [1..NumRpcEndpoints -> [up : BOOLEAN, latency : 0..MaxLatency]]

\* a world the probes made so far agree with: the candidates probed before the
\* returned one did not answer, the returned one did; nothing is known of the rest
AgreesWithProbes(w) ==
  /\ \A i \in 1..(connection - 1) : ~w[i].up
  /\ w[connection].up

FirstLive(w) == CHOOSE i \in 1..NumRpcEndpoints :
                  w[i].up /\ \A j \in 1..(i - 1) : ~w[j].up

FastestLive(w) == CHOOSE i \in 1..NumRpcEndpoints :
                    /\ w[i].up
                    /\ \A j \in 1..NumRpcEndpoints :
                         w[j].up => \/ w[i].latency < w[j].latency
                                    \/ w[i].latency = w[j].latency /\ i <= j

----------------------------------------------------------------------------
(* C33 *)

\* connection.getAccountInfo(mintKeypair.publicKey) of create_launchlab_token.js
\* was called
FinalLookupMade == Count({"getAccountInfo"}) > 0

----------------------------------------------------------------------------
(* C34 *)

\* the one getVersion() of createConnection(url) failed
OverrideProbeFailed ==
  /\ Count({"getVersion"}) = 1
  /\ connection = 0
  /\ pc # "hung"

\* C34: the config-based workflow calls createConnection with the file's
\* rpc_url or, without one, with the default mainnet URL, never with null; the
\* concurrent probes of the candidate list are never started from it, one
\* getVersion() is made at most, and when it fails the launch fails with its
\* error: no other endpoint is tried and nothing else is called.
C34_ConfigWorkflowHasNoFallback ==
  variant = "raydium_config" =>
    /\ rpcUrl \in {"none", "custom", "mainnet-beta"}
    /\ rpcUrl # "none" =>
         rpcUrl = (IF params.rpc_url = "absent" THEN "mainnet-beta" ELSE params.rpc_url)
    /\ ~Concurrent
    /\ \A i \in 1..NumFastEndpoints : probes[i].state = "idle"
    /\ doneOrder = <<>>
    /\ Count({"getVersion"}) <= 1
    /\ OverrideProbeFailed =>
         /\ Exited
         /\ err = "NetworkError"
         /\ calls = <<"getVersion">>
         /\ emitted # <<>>
         /\ AllEmitted("error")
         /\ exitCode = 1

\* the file names no rpc_url, the default URL did not answer, and the launch
\* ended there
C34_Witness ==
  /\ variant = "raydium_config"
  /\ params.rpc_url = "absent"
  /\ params.mintAddress # NoParams.mintAddress
  /\ rpcUrl = "mainnet-beta"
  /\ OverrideProbeFailed
  /\ Exited
  /\ exitCode = 1

----------------------------------------------------------------------------
(* C35 *)

\* C35 (as claimed): the suffix check each script makes at its entry answers
\* as the address validator does for the mint address of the parameter file
\* (32 to 44 characters, ending in LOCK or LCK whatever the case), so that an
\* address one script's check accepts is accepted by every other script's.
C35_EntryChecksAgree ==
  params # NoParams =>
    \A v \in Variants :
      EntryCheck(v, params.mintAddress)
        <=> validateLockAddressFixed(JsString(params.mintAddress))

----------------------------------------------------------------------------
(* C36 *)

\* the strings the scripts put where they hold no pool id
Placeholders == {"Unknown", "N/A"}

\* C36 (as claimed): in the scripts that create a bonding curve, a buy is
\* built and sent only against the pool id that the confirmed creation of the
\* same run produced, and a success result reports that pool id; neither the
\* buy's target nor a success result's pool id is ever "Unknown" or "N/A".
C36_PoolIdFromConfirmedCreation ==
  variant # "simple_lock" =>
    /\ Count({"launchpad.buy", "tx:buy"}) > 0 =>
         /\ createOutcome = "confirmed"
         /\ extInfo = "present"
         /\ poolId = "pool"
    /\ \A i \in DOMAIN emitted :
         emitted[i].status = "success" =>
           /\ createOutcome = "confirmed"
           /\ emitted[i].poolId = "pool"
           /\ emitted[i].poolId = poolId
           /\ emitted[i].poolId \notin Placeholders

====
